---- MODULE Spec2Model ----
(***************************************************************************)
(* A model of the resume parser of src/index.js: the Lambda handler, the   *)
(* two format decoders with the transient DOCX file, and the field         *)
(* extractors extractFullName, extractTelegram and extractSalary.          *)
(*                                                                         *)
(* A text is a sequence of one-character strings.  Positions are 1-based   *)
(* in the model; the regular expression's lastIndex keeps JavaScript's     *)
(* 0-based value (lastIndex = number of characters before the position).   *)
(***************************************************************************)
EXTENDS Integers, Sequences, FiniteSets, TLC

\* ------------------------------------------------------------------ bounds
\* Number of handler invocations that may be in flight together.
MaxInv == 2
\* Longest generated text handed to extractSalary.
MaxSalaryLen == 4
\* Longest generated text handed to extractTelegram.
MaxTelegramLen == 4
\* Longest generated person-entity string handed to extractFullName.
MaxNameLen == 5
\* Number of successive calls of one extractor on the same text.
MaxCalls == 2

\* An optional value is a sequence of length at most one: Null is the absent
\* value (JavaScript null and undefined alike), Some(v) a present one.
Null == <<>>
Some(v) == <<v>>

\* ------------------------------------------------------- character classes
Digits == {"0", "1", "2", "3", "4", "5", "6", "7", "8", "9"}
LowerCase == <<"a", "b", "c", "d", "e", "f", "g", "h", "i", "j", "k", "l", "m",
               "n", "o", "p", "q", "r", "s", "t", "u", "v", "w", "x", "y", "z">>
UpperCase == <<"A", "B", "C", "D", "E", "F", "G", "H", "I", "J", "K", "L", "M",
               "N", "O", "P", "Q", "R", "S", "T", "U", "V", "W", "X", "Y", "Z">>
Range(s) == {s[i] : i \in DOMAIN s}

\* \d
IsDigit(c) == c \in Digits
\* \w
IsWord(c) == c \in Digits \cup Range(LowerCase) \cup Range(UpperCase) \cup {"_"}
\* \s
IsSpace(c) == c \in {" ", "\t", "\n"}
\* Case folding of the i flag.
ToLower(c) ==
    IF \E i \in DOMAIN UpperCase : UpperCase[i] = c
    THEN LowerCase[CHOOSE i \in DOMAIN UpperCase : UpperCase[i] = c]
    ELSE c

\* The character at 1-based position p, or "" past either end.
At(text, p) == IF p \in DOMAIN text THEN text[p] ELSE ""

\* Whether lit (lower case) occurs in text at position p, ignoring case.
LitAt(text, p, lit) ==
    /\ p + Len(lit) - 1 <= Len(text)
    /\ \A k \in DOMAIN lit : ToLower(text[p + k - 1]) = lit[k]

\* All sequences over alphabet of length at most n.
RECURSIVE SeqsUpTo(_, _)
SeqsUpTo(alphabet, n) ==
    IF n = 0 THEN {<<>>}
    ELSE LET shorter == SeqsUpTo(alphabet, n - 1)
         IN  shorter \cup {Append(s, c) : s \in shorter, c \in alphabet}

\* ------------------------------------------------------------ salaryRegex
\* [\$€£]
CurrencySymbols == {"$", "€", "£"}
\* currencyMap
currencyMap(sym) ==
    CASE sym = "$" -> "USD"
      [] sym = "€" -> "EUR"
      [] sym = "£" -> "GBP"
      [] OTHER -> "undefined"
\* ( {1,3}): at most this many spaces are consumed after the amount.
MaxSpaces == 3
\* \d{3}
GroupLen == 3
\* \.\d{1,2}
MaxDecimals == 2
\* (?:per year|annually|per annum|per month), in the alternation's order.
PeriodKeywords ==
    << <<"p", "e", "r", " ", "y", "e", "a", "r">>,
       <<"a", "n", "n", "u", "a", "l", "l", "y">>,
       <<"p", "e", "r", " ", "a", "n", "n", "u", "m">>,
       <<"p", "e", "r", " ", "m", "o", "n", "t", "h">> >>

AllDigits(s) == \A i \in DOMAIN s : IsDigit(s[i])

\* \d+(?:,?\d{3})* : a first run of one or more digits; every comma is followed
\* by a run of digits whose length is a positive multiple of three.
RECURSIVE IsGrouped(_, _)
IsGrouped(s, first) ==
    LET commas == {i \in DOMAIN s : s[i] = ","}
        cut == IF commas = {} THEN Len(s) + 1
               ELSE CHOOSE i \in commas : \A j \in commas : i <= j
        chunk == SubSeq(s, 1, cut - 1)
    IN  /\ Len(chunk) >= 1
        /\ AllDigits(chunk)
        /\ first \/ Len(chunk) % GroupLen = 0
        /\ cut > Len(s) \/ IsGrouped(SubSeq(s, cut + 1, Len(s)), FALSE)

\* \d+(?:,?\d{3})*(?:\.\d{1,2})? : the language of the amount group.
IsAmount(s) ==
    LET dots == {i \in DOMAIN s : s[i] = "."}
    IN  IF dots = {} THEN IsGrouped(s, TRUE)
        ELSE LET d == CHOOSE i \in dots : \A j \in dots : i <= j
                 frac == SubSeq(s, d + 1, Len(s))
             IN  /\ IsGrouped(SubSeq(s, 1, d - 1), TRUE)
                 /\ Len(frac) \in 1..MaxDecimals
                 /\ AllDigits(frac)

\* The number of literal spaces at p, p+1, ..., at most MaxSpaces.
RECURSIVE SpacesAt(_, _, _)
SpacesAt(text, p, taken) ==
    IF taken < MaxSpaces /\ At(text, p) = " "
    THEN SpacesAt(text, p + 1, taken + 1)
    ELSE taken

\* The tail of the pattern after the amount's spaces, from position p; every
\* part is optional and greedy, so each is taken when it is there.  The position
\* after the match.
SalaryTailEnd(text, p) ==
    LET p1 == IF At(text, p) \in CurrencySymbols THEN p + 1 ELSE p
        p2 == IF IsSpace(At(text, p1)) THEN p1 + 1 ELSE p1
        p3 == IF IsSpace(At(text, p2)) THEN p2 + 1 ELSE p2
        hits == {k \in DOMAIN PeriodKeywords : LitAt(text, p3, PeriodKeywords[k])}
    IN  IF hits = {} THEN p3
        ELSE p3 + Len(PeriodKeywords[CHOOSE k \in hits : \A j \in hits : k <= j])

\* The match of salaryRegex that starts at position s, or Null.  After the
\* symbol and one optional white space the amount must be followed by a literal
\* space; the amount holds no space, so at most one end of the amount fits.
SalaryMatchAt(text, s) ==
    IF At(text, s) \notin CurrencySymbols THEN Null
    ELSE LET a == IF IsSpace(At(text, s + 1)) THEN s + 2 ELSE s + 1
             ends == {e \in a..Len(text) :
                         /\ IsAmount(SubSeq(text, a, e))
                         /\ At(text, e + 1) = " "}
         IN  IF ends = {} THEN Null
             ELSE LET e == CHOOSE x \in ends : \A y \in ends : y <= x
                      n == SpacesAt(text, e + 1, 0)
                  IN  Some([currencySymbol |-> text[s],
                            amount |-> SubSeq(text, a, e),
                            end |-> SalaryTailEnd(text, e + 1 + n) - 1])

\* RegExp.prototype.exec of a g-flagged pattern: the leftmost match at or after
\* lastIndex, or Null; the second component is the lastIndex it leaves behind.
SalaryExec(text, lastIndex) ==
    LET matches == [s \in (lastIndex + 1)..Len(text) |-> SalaryMatchAt(text, s)]
        starts == {s \in DOMAIN matches : matches[s] # Null}
    IN  IF lastIndex > Len(text) \/ starts = {} THEN <<Null, 0>>
        ELSE LET m == matches[CHOOSE s \in starts : \A t \in starts : s <= t]
             IN  <<m, m[1].end>>

\* The decimal value of a string of digits.
RECURSIVE DigitsValue(_)
DigitsValue(s) ==
    IF s = <<>> THEN 0
    ELSE 10 * DigitsValue(SubSeq(s, 1, Len(s) - 1))
         + (CHOOSE d \in 0..9 : ToString(d) = s[Len(s)])

\* amount.replace(/,/g, '')
StripCommas(s) == SelectSeq(s, LAMBDA c : c # ",")

\* parseFloat of digits with an optional fraction of one or two digits, as the
\* number of hundredths (1200.50 and 1200.5 are both 120050).
ParseFloat(s) ==
    LET dots == {i \in DOMAIN s : s[i] = "."}
    IN  IF dots = {} THEN 100 * DigitsValue(s)
        ELSE LET d == CHOOSE i \in dots : TRUE
                 frac == SubSeq(s, d + 1, Len(s))
             IN  100 * DigitsValue(SubSeq(s, 1, d - 1))
                 + (IF Len(frac) = 1 THEN 10 * DigitsValue(frac) ELSE DigitsValue(frac))

\* currencyMap[currencySymbol] || 'USD'
CurrencyCode(code) == IF code = "undefined" THEN "USD" ELSE code

\* Lines 178 to 189: what extractSalary returns for the match exec gave.
SalaryOf(salaryMatch) ==
    IF salaryMatch # Null /\ salaryMatch[1].amount # <<>>
    THEN Some([amount |-> ParseFloat(StripCommas(salaryMatch[1].amount)),
               currency |-> CurrencyCode(currencyMap(salaryMatch[1].currencySymbol))])
    ELSE Null

\* exec's result r: the value extractSalary returns, and the lastIndex left.
SalaryResult(r) == <<SalaryOf(r[1]), r[2]>>

\* extractSalary: the value returned and the lastIndex left in salaryRegex.
extractSalary(text, lastIndex) == SalaryResult(SalaryExec(text, lastIndex))

\* ------------------------------------- telegramUrlRegex, telegramHandleRegex
\* (https?:\/\/)? : the scheme, "https" tried before "http".
UrlSchemes ==
    << <<"h", "t", "t", "p", "s", ":", "/", "/">>,
       <<"h", "t", "t", "p", ":", "/", "/">> >>
\* (t\.me|telegram\.me)\/ : the host, with the slash that follows it.
TelegramHosts ==
    << <<"t", ".", "m", "e", "/">>,
       <<"t", "e", "l", "e", "g", "r", "a", "m", ".", "m", "e", "/">> >>

\* The positions right after an element of lits that occurs at p, in lits' order.
AfterLit(text, p, lits) ==
    LET hits == SelectSeq([k \in DOMAIN lits |-> k],
                          LAMBDA k : LitAt(text, p, lits[k]))
    IN  [n \in DOMAIN hits |-> p + Len(lits[hits[n]])]

\* The number of characters from p on that are not white space ([^\s]+, greedy).
RECURSIVE NonSpaceRun(_, _)
NonSpaceRun(text, p) ==
    IF p \in DOMAIN text /\ ~IsSpace(text[p]) THEN 1 + NonSpaceRun(text, p + 1) ELSE 0

\* The last position of the match of telegramUrlRegex that starts at s, or 0:
\* the scheme is tried first and given up when no host follows it.
PathEnd(text, pathStarts) ==
    LET ok == {n \in DOMAIN pathStarts :
                  /\ pathStarts[n] # <<>>
                  /\ NonSpaceRun(text, pathStarts[n][1]) >= 1}
    IN  IF ok = {} THEN 0
        ELSE LET p == pathStarts[CHOOSE x \in ok : \A y \in ok : x <= y][1]
             IN  p + NonSpaceRun(text, p) - 1
HostEnds(text, hostStarts) ==
    [n \in DOMAIN hostStarts |-> AfterLit(text, hostStarts[n], TelegramHosts)]
TelegramUrlEndAt(text, s) ==
    PathEnd(text, HostEnds(text, AfterLit(text, s, UrlSchemes) \o <<s>>))

\* text.match(telegramUrlRegex)?.[0]: the leftmost match, or Null.  String.match
\* of a g-flagged pattern starts at 0 whatever lastIndex was.
TelegramUrlMatch(text) ==
    LET ends == [s \in DOMAIN text |-> TelegramUrlEndAt(text, s)]
        starts == {s \in DOMAIN text : ends[s] # 0}
    IN  IF starts = {} THEN Null
        ELSE LET s == CHOOSE x \in starts : \A y \in starts : x <= y
             IN  Some(SubSeq(text, s, ends[s]))

\* The number of word characters from p on.
RECURSIVE WordRun(_, _)
WordRun(text, p) ==
    IF p \in DOMAIN text /\ IsWord(text[p]) THEN 1 + WordRun(text, p + 1) ELSE 0

\* (?!\.\w) at position p.
DotWordAt(text, p) == At(text, p) = "." /\ IsWord(At(text, p + 1))

\* The number of word characters in the match of telegramHandleRegex that starts
\* at s, or 0: not after a word character or a dot; \w+ takes the longest run and
\* gives characters back until the lookahead (?!\.\w) holds.
TelegramHandleLenAt(text, s) ==
    IF \/ At(text, s) # "@"
       \/ IsWord(At(text, s - 1))
       \/ At(text, s - 1) = "."
    THEN 0
    ELSE LET fits == {k \in 1..WordRun(text, s + 1) : ~DotWordAt(text, s + 1 + k)}
         IN  IF fits = {} THEN 0 ELSE CHOOSE k \in fits : \A j \in fits : j <= k

\* text.match(telegramHandleRegex)?.[0]
TelegramHandleMatch(text) ==
    LET lens == [s \in DOMAIN text |-> TelegramHandleLenAt(text, s)]
        starts == {s \in DOMAIN text : lens[s] # 0}
    IN  IF starts = {} THEN Null
        ELSE LET s == CHOOSE x \in starts : \A y \in starts : x <= y
             IN  Some(SubSeq(text, s, s + lens[s]))

\* extractTelegram
UrlOrHandle(text, telegramUrlMatch) ==
    IF telegramUrlMatch # Null THEN telegramUrlMatch ELSE TelegramHandleMatch(text)
extractTelegram(text) == UrlOrHandle(text, TelegramUrlMatch(text))

\* --------------------------------------------------------- extractFullName
\* String.prototype.split(' '): the pieces between single spaces, empty pieces
\* included; a string without a space is its own single piece.
RECURSIVE Split(_)
Split(str) ==
    LET spaces == {i \in DOMAIN str : str[i] = " "}
    IN  IF spaces = {} THEN <<str>>
        ELSE LET i == CHOOSE x \in spaces : \A y \in spaces : x <= y
             IN  <<SubSeq(str, 1, i - 1)>> \o Split(SubSeq(str, i + 1, Len(str)))

\* The element of a JavaScript array at 0-based index k, or Null.
Element(array, k) == IF k + 1 \in DOMAIN array THEN Some(array[k + 1]) ELSE Null

\* JavaScript truthiness of an optional string.
Truthy(v) == v # Null /\ v[1] # <<>>

\* extractFullName, from the person entities nlp(text).people() gave: threw holds
\* when fullName is undefined and fullName.split raises a TypeError.
\* Line 107: the last name, given the second piece of the first entity and
\* the second entity.
LastName(lastName, second) ==
    IF ~Truthy(lastName) /\ second # Null /\ Len(Split(second[1])) = 1
    THEN second
    ELSE lastName
\* Lines 106 to 108, given the pieces of people[0].
NameOf(parts, people) ==
    [threw |-> FALSE,
     firstName |-> Element(parts, 0),
     lastName |-> LastName(Element(parts, 1), Element(people, 1))]
extractFullName(people) ==
    IF Element(people, 0) = Null
    THEN [threw |-> TRUE, firstName |-> Null, lastName |-> Null]
    ELSE NameOf(Split(people[1]), people)

\* fullName: firstName && lastName ? `${firstName} ${lastName}` : null
FullNameField(firstName, lastName) ==
    IF Truthy(firstName) /\ Truthy(lastName)
    THEN Some(firstName[1] \o <<" ">> \o lastName[1])
    ELSE Null

\* ------------------------------------------------------------ the handler
PDF == "application/pdf"
DOCX == "application/vnd.openxmlformats-officedocument.wordprocessingml.document"
\* A declared type the handler does not support.
PlainText == "text/plain"
\* A property that is not there.
Undefined == "undefined"

\* The documents a request body may hold, by what the bytes are and the text a
\* decoder of that format gets out of them; people is what nlp(text).people()
\* recognizes in that text.
Documents ==
    << [kind |-> "pdf",
        text |-> <<"A", "l", " ", "P", "o", " ", "$", "5", " ">>,
        people |-> << <<"A", "l", " ", "P", "o">> >>],
       [kind |-> "docx",
        text |-> <<"@", "a", "l", " ", "£", "1">>,
        people |-> << >>],
       [kind |-> "docx",
        text |-> <<"A", "l", " ", "$", "7", " ", "P", "o", " ", "t", ".", "m", "e", "/", "a">>,
        people |-> << <<"A", "l">>, <<"P", "o">> >>],
       [kind |-> "garbage", text |-> << >>, people |-> << >>] >>
Bodies == DOMAIN Documents

\* nlp(text).people().out('array')
NlpPeople(text) ==
    IF \E b \in Bodies : Documents[b].text = text
    THEN Documents[CHOOSE b \in Bodies : Documents[b].text = text].people
    ELSE << >>

\* The events the handler is invoked with: uploadCv.format given (headers are
\* then never read), or format absent and the type left to the headers, which
\* may be missing altogether or lack the Content-Type key.
NoHeaders == [present |-> FALSE, contentType |-> Undefined]
Headers(contentType) == [present |-> TRUE, contentType |-> contentType]
Events ==
    [format : {PDF, DOCX, PlainText}, headers : {NoHeaders}, body : Bodies]
    \cup [format : {Undefined},
          headers : {NoHeaders, Headers(Undefined), Headers(PDF), Headers(DOCX),
                     Headers(PlainText)},
          body : Bodies]

Inv == 1..MaxInv

VARIABLES
    pc,               \* where each invocation of the handler stands
    event,            \* the event each invocation was called with
    response,         \* what each invocation returned
    parsed,           \* what docxParser.parseDocx got for each invocation
    calls,            \* what each invocation has called so far
    file,             \* /tmp/resume.docx
    salaryLastIndex,  \* salaryRegex.lastIndex
    fnInput,          \* the argument of the extractor called on its own
    fnOutput          \* what its successive calls returned

vars == <<pc, event, response, parsed, calls, file, salaryLastIndex, fnInput, fnOutput>>
handlerVars == <<pc, event, response, parsed, calls, file>>

NoResponse == [statusCode |-> 0]
NoEvent == [format |-> Undefined, headers |-> NoHeaders, body |-> 0]
NotParsed == [done |-> FALSE, ok |-> FALSE, text |-> << >>, error |-> "", from |-> 0]
NoCalls == [decoder |-> "none", wrote |-> FALSE, extractors |-> FALSE,
            decodeError |-> "", text |-> Null]
NoFile == [exists |-> FALSE, owner |-> 0, bytes |-> 0]

\* format ?? event.headers['Content-Type'] raises a TypeError when format is
\* absent and the event has no headers.
FileTypeThrows(e) == e.format = Undefined /\ ~e.headers.present
\* let fileType = format ?? event.headers['Content-Type']
FileType(e) == IF e.format # Undefined THEN e.format ELSE e.headers.contentType

\* The branch of the handler's if / else if / else a fileType takes.
DecoderDefaultsToDocx(fileType) == IF fileType = PDF THEN "pdf" ELSE "docx"
Decoder(fileType) ==
    IF fileType = PDF THEN "pdf"
    ELSE IF fileType = DOCX THEN "docx"
    ELSE "none"

\* The handler's return statements.
UnsupportedResponse == [statusCode |-> 400, message |-> "Unsupported file type"]
SuccessResponse(extractedInfo) == [statusCode |-> 200, data |-> extractedInfo]
CatchResponseWithoutError(error) ==
    [statusCode |-> 500, message |-> "Error parsing resume"]
CatchResponse(error) ==
    [statusCode |-> 500, message |-> "Error parsing resume", error |-> error]

\* pdfParse(fileContent) inside extractFromPDF's try / catch.
extractFromPDF(body) ==
    IF Documents[body].kind = "pdf"
    THEN [ok |-> TRUE, text |-> Documents[body].text, error |-> ""]
    ELSE [ok |-> FALSE, text |-> << >>, error |-> "Failed to parse PDF: bad XRef entry"]

\* What docxParser.parseDocx hands its callback for the file it finds at
\* tempFilePath, wrapped as extractFromDocx's callback wraps it.
parseDocx(f) ==
    IF ~f.exists
    THEN [ok |-> FALSE, text |-> << >>, error |-> "Failed to parse DOCX: ENOENT"]
    ELSE IF Documents[f.bytes].kind = "docx"
    THEN [ok |-> TRUE, text |-> Documents[f.bytes].text, error |-> ""]
    ELSE [ok |-> FALSE, text |-> << >>, error |-> "Failed to parse DOCX: not a zip file"]

\* Lines 42 to 60: the extractors in the order the handler calls them, the
\* response, and the lastIndex salaryRegex is left with.  extractFullName runs
\* first, and when it throws nothing after it runs.
Assemble(name, telegram, salary, lastIndex) ==
    IF name.threw
    THEN [response |-> CatchResponse("Cannot read properties of undefined (reading 'split')"),
          lastIndex |-> lastIndex]
    ELSE [response |-> SuccessResponse(
              [firstName |-> name.firstName,
               lastName |-> name.lastName,
               fullName |-> FullNameField(name.firstName, name.lastName),
               telegram |-> telegram,
               desiredSalary |-> salary[1]]),
          lastIndex |-> salary[2]]
RunExtractors(text, lastIndex) ==
    Assemble(extractFullName(NlpPeople(text)), extractTelegram(text),
             extractSalary(text, lastIndex), lastIndex)

HandlerInit ==
    /\ pc = [i \in Inv |-> "idle"]
    /\ event = [i \in Inv |-> NoEvent]
    /\ response = [i \in Inv |-> NoResponse]
    /\ parsed = [i \in Inv |-> NotParsed]
    /\ calls = [i \in Inv |-> NoCalls]
    /\ file = NoFile

Init ==
    /\ HandlerInit
    /\ salaryLastIndex = 0
    /\ fnInput = << >>
    /\ fnOutput = << >>

\* The handler is called with event e and runs up to its first await or return
\* (lines 20 to 40, and extractFromDocx up to the call of parseDocx).
Invoke(i, e, writeOk) ==
    /\ pc[i] = "idle"
    /\ \A j \in Inv : j < i => pc[j] # "idle"
    /\ event' = [event EXCEPT ![i] = e]
    /\ UNCHANGED <<parsed, salaryLastIndex, fnInput, fnOutput>>
    /\ IF FileTypeThrows(e)
       THEN \* line 25 is outside the try: the handler's promise rejects
            /\ pc' = [pc EXCEPT ![i] = "threw"]
            /\ UNCHANGED <<response, calls, file>>
       ELSE IF Decoder(FileType(e)) = "pdf"
       THEN /\ pc' = [pc EXCEPT ![i] = "pdfParse"]
            /\ calls' = [calls EXCEPT ![i].decoder = "pdf"]
            /\ UNCHANGED <<response, file>>
       ELSE IF Decoder(FileType(e)) = "docx"
       THEN IF writeOk
            THEN \* fs.writeFileSync(tempFilePath, fileContent); parseDocx starts
                 /\ file' = [exists |-> TRUE, owner |-> i, bytes |-> e.body]
                 /\ pc' = [pc EXCEPT ![i] = "parseDocx"]
                 /\ calls' = [calls EXCEPT ![i].decoder = "docx", ![i].wrote = TRUE]
                 /\ UNCHANGED response
            ELSE \* writeFileSync throws in the promise executor: the promise
                 \* rejects and the handler's catch answers
                 /\ pc' = [pc EXCEPT ![i] = "returned"]
                 /\ response' = [response EXCEPT ![i] = CatchResponse("ENOSPC: no space left on device, write")]
                 /\ calls' = [calls EXCEPT ![i].decoder = "docx"]
                 /\ UNCHANGED file
       ELSE /\ pc' = [pc EXCEPT ![i] = "returned"]
            /\ response' = [response EXCEPT ![i] = UnsupportedResponse]
            /\ UNCHANGED <<calls, file>>

\* The handler's lines 42 to 68 with what the extractors gave.
Extract(i, x) ==
    /\ response' = [response EXCEPT ![i] = x.response]
    /\ salaryLastIndex' = x.lastIndex

\* pdfParse settles; the handler goes on after its await (lines 32, 42 to 68).
PdfSettle(i) ==
    /\ pc[i] = "pdfParse"
    /\ LET r == extractFromPDF(event[i].body)
       IN  IF r.ok
           THEN /\ Extract(i, RunExtractors(r.text, salaryLastIndex))
                /\ calls' = [calls EXCEPT ![i].extractors = TRUE,
                                          ![i].text = Some(r.text)]
           ELSE /\ response' = [response EXCEPT ![i] = CatchResponse(r.error)]
                /\ calls' = [calls EXCEPT ![i].decodeError = r.error]
                /\ UNCHANGED salaryLastIndex
    /\ pc' = [pc EXCEPT ![i] = "returned"]
    /\ UNCHANGED <<event, parsed, file, fnInput, fnOutput>>

\* docxParser reads whatever is at tempFilePath now.
DocxRead(i) ==
    /\ pc[i] = "parseDocx"
    /\ LET r == parseDocx(file)
       IN  /\ parsed' = [parsed EXCEPT ![i] =
                            [done |-> TRUE, ok |-> r.ok, text |-> r.text,
                             error |-> r.error, from |-> file.owner]]
           /\ calls' = [calls EXCEPT ![i].decodeError = r.error]
    /\ pc' = [pc EXCEPT ![i] = "docxCallback"]
    /\ UNCHANGED <<event, response, file, salaryLastIndex, fnInput, fnOutput>>

\* parseDocx calls back (lines 89 to 97) and the handler goes on after its await.
DocxCallback(i) ==
    /\ pc[i] = "docxCallback"
    /\ IF ~parsed[i].ok
       THEN \* reject(...): the file stays
            /\ pc' = [pc EXCEPT ![i] = "returned"]
            /\ response' = [response EXCEPT ![i] = CatchResponse(parsed[i].error)]
            /\ UNCHANGED <<calls, file, salaryLastIndex>>
       ELSE IF ~file.exists
       THEN \* fs.unlinkSync throws ENOENT inside the callback: the promise is
            \* never settled and the handler never returns
            /\ pc' = [pc EXCEPT ![i] = "hung"]
            /\ UNCHANGED <<response, calls, file, salaryLastIndex>>
       ELSE \* fs.unlinkSync(tempFilePath); resolve(data)
            /\ file' = NoFile
            /\ pc' = [pc EXCEPT ![i] = "returned"]
            /\ Extract(i, RunExtractors(parsed[i].text, salaryLastIndex))
            /\ calls' = [calls EXCEPT ![i].extractors = TRUE,
                                      ![i].text = Some(parsed[i].text)]
    /\ UNCHANGED <<event, parsed, fnInput, fnOutput>>

Next ==
    \E i \in Inv :
        \/ \E e \in Events, writeOk \in BOOLEAN : Invoke(i, e, writeOk)
        \/ PdfSettle(i)
        \/ DocxRead(i)
        \/ DocxCallback(i)

Spec == Init /\ [][Next]_vars

\* ------------------------------------------- the extractors on their own
\* Each extractor called MaxCalls times in a row on one input, in a process
\* where nothing else runs.
Flatten(pieces) ==
    LET RECURSIVE cat(_)
        cat(k) == IF k = 0 THEN << >> ELSE cat(k - 1) \o pieces[k]
    IN  cat(Len(pieces))

SalaryAlphabet == {"$", "1", ",", " ", "x"}
SalarySamples ==
    { <<"£", "1", "2", "0", "0", ".", "5", "0">>,
      <<"$", "5", "0", ",", "0", "0", "0", " ", " ", "p", "e", "r", " ", "y", "e", "a", "r">>,
      <<"€", " ", "1", ",", "2", "3", "4", ".", "5", " ", "€", " ", "A", "n", "n", "u", "a", "l", "l", "y", "!">>,
      <<"p", "a", "y", " ", "$", "1", " ", "o", "r", " ", "£", "2", " ", "n", "e", "t">>,
      <<"n", "o", " ", "s", "a", "l", "a", "r", "y", " ", "1", "2", "0", "0", " ">> }
SalaryTexts == SeqsUpTo(SalaryAlphabet, MaxSalaryLen) \cup SalarySamples

TelegramPieces == {<<"@">>, <<"a">>, <<".">>, <<" ">>, <<"t", ".", "m", "e", "/">>}
TelegramSamples ==
    { <<"c", "o", "n", "t", "a", "c", "t", " ", "t", ".", "m", "e", "/", "j", "o", "h", "n", "d", "o", "e">>,
      <<"p", "i", "n", "g", " ", "@", "j", "o", "h", "n", "d", "o", "e", " ", "f", "o", "r", " ", "i", "n", "f", "o">>,
      <<"e", "m", "a", "i", "l", " ", "j", "o", "h", "n", "@", "d", "o", "e", ".", "c", "o", "m">>,
      <<"@", "b", "o", "b", " ", "H", "t", "t", "p", "s", ":", "/", "/", "T", "e", "l", "e", "g", "r", "a", "m", ".", "m", "e", "/", "b", "o", "b", " ", "x">> }
TelegramTexts ==
    {Flatten(ps) : ps \in SeqsUpTo(TelegramPieces, MaxTelegramLen)} \cup TelegramSamples

NameAlphabet == {"a", "b", " "}
SecondNames == {<<"c">>, <<"c", " ", "d">>, <<"c", "d">>}
PeopleLists ==
    LET names == SeqsUpTo(NameAlphabet, MaxNameLen) \ {<< >>}
    IN  {<< >>} \cup {<<n>> : n \in names} \cup {<<n, m>> : n \in names, m \in SecondNames}

FnInit(inputs) ==
    /\ HandlerInit
    /\ salaryLastIndex = 0
    /\ fnInput \in inputs
    /\ fnOutput = << >>

\* One more call of the extractor returns result and leaves lastIndex behind.
Return(result, lastIndex) ==
    /\ Len(fnOutput) < MaxCalls
    /\ fnOutput' = Append(fnOutput, result)
    /\ salaryLastIndex' = lastIndex
    /\ UNCHANGED <<handlerVars, fnInput>>

ReturnSalary(r) == Return(r[1], r[2])
CallExtractSalary == ReturnSalary(extractSalary(fnInput, salaryLastIndex))
CallExtractTelegram == Return(extractTelegram(fnInput), salaryLastIndex)
CallExtractFullName == Return(extractFullName(fnInput), salaryLastIndex)

InitSalary == FnInit(SalaryTexts)
NextSalary == CallExtractSalary
SpecSalary == InitSalary /\ [][NextSalary]_vars

InitTelegram == FnInit(TelegramTexts)
NextTelegram == CallExtractTelegram
SpecTelegram == InitTelegram /\ [][NextTelegram]_vars

InitName == FnInit(PeopleLists)
NextName == CallExtractFullName
SpecName == InitName /\ [][NextName]_vars

\* ------------------------------------------------------------- the claims
\* An event whose declared type (uploadCv.format, or the Content-Type header
\* when format is absent) can be read and is none of the two supported types.
DeclaredUnsupported(e) == ~FileTypeThrows(e) /\ FileType(e) \notin {PDF, DOCX}

C2_TempFileRemoved ==
    \A i \in Inv : pc[i] = "returned" => ~(file.exists /\ file.owner = i)

\* C3: under any interleaving of DOCX invocations the decoder of an invocation
\* reads the bytes that invocation wrote, and no invocation loses its artifact
\* to another's removal.
C3_ArtifactsIsolated ==
    \A i \in Inv :
        /\ parsed[i].done => parsed[i].from = i
        /\ pc[i] # "hung"

\* C4: two invocations with identical input that both answer 200 carry an
\* identical record, desiredSalary included, whatever ran before them.
C4_SameInputSameRecord ==
    \A i, j \in Inv :
        /\ event[i] = event[j]
        /\ response[i].statusCode = 200
        /\ response[j].statusCode = 200
        => response[i].data = response[j].data

\* C5: when the decoded text holds no person entity the handler still answers
\* 200, with firstName, lastName and fullName null.
C5_NoPersonStill200 ==
    \A i \in Inv :
        /\ pc[i] = "returned"
        /\ calls[i].text # Null
        /\ NlpPeople(calls[i].text[1]) = << >>
        => /\ response[i].statusCode = 200
           /\ response[i].data.firstName = Null
           /\ response[i].data.lastName = Null
           /\ response[i].data.fullName = Null

\* C6: when the decoder of a supported type fails, no field extractor runs for
\* that invocation and the handler answers exactly {statusCode: 500, message:
\* 'Error parsing resume', error: the decode failure's description}, without
\* a data field.
C6_DecodeFailureIs500 ==
    \A i \in Inv :
        calls[i].decodeError # "" =>
            /\ ~calls[i].extractors
            /\ pc[i] \in {"docxCallback", "returned"}
            /\ calls[i].decodeError \in
                   {"Failed to parse PDF: bad XRef entry",
                    "Failed to parse DOCX: not a zip file",
                    "Failed to parse DOCX: ENOENT"}
            /\ pc[i] = "returned" =>
                   response[i] = [statusCode |-> 500,
                                  message |-> "Error parsing resume",
                                  error |-> calls[i].decodeError]

\* One invocation answered for a failed PDF decode and one for a failed DOCX
\* decode.
C6_Witness ==
    \E i, j \in Inv :
        /\ pc[i] = "returned" /\ calls[i].decoder = "pdf" /\ calls[i].decodeError # ""
        /\ pc[j] = "returned" /\ calls[j].decoder = "docx" /\ calls[j].decodeError # ""

\* C7: no failure at any stage escapes the handler: an invocation never ends
\* with an uncaught exception and is never left without a response.
C7_NoFailureEscapes ==
    \A i \in Inv : pc[i] \notin {"threw", "hung"}

\* The amount that starts at position a whatever follows it: the longest run
\* from a that is an amount.
AmountFrom(text, a) ==
    LET ends == {e \in a..Len(text) : IsAmount(SubSeq(text, a, e))}
    IN  IF ends = {} THEN << >>
        ELSE SubSeq(text, a, CHOOSE x \in ends : \A y \in ends : y <= x)
\* The currency symbol at s with the amount after it (one white space allowed
\* between them), or Null.
SymbolAmountAt(text, s) ==
    LET amount == AmountFrom(text, IF IsSpace(At(text, s + 1)) THEN s + 2 ELSE s + 1)
    IN  IF At(text, s) \in CurrencySymbols /\ amount # << >>
        THEN Some([amount |-> ParseFloat(StripCommas(amount)),
                   currency |-> currencyMap(text[s])])
        ELSE Null
\* The first currency-symbol-plus-amount occurrence of text, or Null.
FirstSymbolAmount(text) ==
    LET starts == {s \in DOMAIN text : SymbolAmountAt(text, s) # Null}
    IN  IF starts = {} THEN Null
        ELSE SymbolAmountAt(text, CHOOSE x \in starts : \A y \in starts : x <= y)

\* C8: extractSalary (first call) returns the amount and currency of the first
\* currency-symbol-plus-amount occurrence whether or not anything follows the
\* amount, and null for a text without such an occurrence.
C8_FirstSymbolAmount ==
    fnOutput # << >> => fnOutput[1] = FirstSymbolAmount(fnInput)

\* The first @-prefixed token (@ and the whole run of word characters after it)
\* that is not preceded by a word character or dot and not followed by
\* dot-plus-word, or Null.
FirstHandleToken(text) ==
    LET starts == {s \in DOMAIN text :
                      /\ text[s] = "@"
                      /\ ~IsWord(At(text, s - 1))
                      /\ At(text, s - 1) # "."
                      /\ WordRun(text, s + 1) >= 1
                      /\ ~DotWordAt(text, s + 1 + WordRun(text, s + 1))}
    IN  IF starts = {} THEN Null
        ELSE LET s == CHOOSE x \in starts : \A y \in starts : x <= y
             IN  Some(SubSeq(text, s, s + WordRun(text, s + 1)))

\* C9: extractTelegram returns the first t.me or telegram.me URL with a path
\* when there is one, even after an earlier @handle; otherwise the first
\* @-prefixed token not preceded by a word character or dot and not followed by
\* dot-plus-word; otherwise null.
C9_UrlThenHandleToken ==
    fnOutput # << >> =>
        fnOutput[1] = IF TelegramUrlMatch(fnInput) # Null
                      THEN TelegramUrlMatch(fnInput)
                      ELSE FirstHandleToken(fnInput)

\* A person entity made of one or more tokens with single spaces between them.
WellFormedName(str) == \A k \in DOMAIN Split(str) : Split(str)[k] # << >>
\* Everything after the first token of a person entity, or Null.
RestOfName(str) ==
    IF Len(Split(str)) >= 2
    THEN Some(SubSeq(str, Len(Split(str)[1]) + 2, Len(str)))
    ELSE Null

\* C10: extractFullName gives the first token of the first person entity as
\* firstName and everything after it as lastName, dropping no token; the second
\* entity is the lastName only when the first has a single token and the second
\* is a single token.
C10_FirstAndRest ==
    /\ fnOutput # << >>
    /\ fnInput # << >>
    /\ \A k \in DOMAIN fnInput : WellFormedName(fnInput[k])
    => /\ fnOutput[1].firstName = Some(Split(fnInput[1])[1])
       /\ fnOutput[1].lastName =
              IF Len(Split(fnInput[1])) >= 2 THEN RestOfName(fnInput[1])
              ELSE IF Len(fnInput) >= 2 /\ Len(Split(fnInput[2])) = 1
              THEN Some(fnInput[2])
              ELSE Null

====
